---- MODULE Spec2Model ----
(***************************************************************************)
(* The animated background of the dev-dimension custom element             *)
(* (three.lib.ts with the bounded shape pool): the exported functions      *)
(* setupThreeScene, setupEventListeners, animate, handleResize and         *)
(* cleanupThreeResources, the module-level pool, clock and registry they   *)
(* share, and the browser objects they act on (shadow root, pending        *)
(* animation frames, window resize listeners, viewport).                   *)
(*                                                                         *)
(* Every function of the library is an operator from a program state (a    *)
(* record of all the program's objects) to the program state after the     *)
(* call, so that a handler that calls other functions is the composition   *)
(* of their operators.  An action of the model is one run-to-completion    *)
(* JavaScript task: a call by the host, a frame callback, a resize event.  *)
(***************************************************************************)
EXTENDS Integers, Sequences, FiniteSets, TLC

\* ---------------------------------------------------------------- bounds

\* Host elements that exist; Spec drives the elements of Hosts.
Elements == {"e1", "e2"}
Hosts == {"e1"}

\* CONFIG.MAX_SHAPES, scaled down: the source sets 20, the pool code reads it
\* only in the comparison of handleShapeManagement.
MAX_SHAPES == 3
\* CONFIG.ACTION_INTERVAL, in seconds.
ACTION_INTERVAL == 1
\* Resolution of the model's time: ticks per second of clock time.
TicksPerSecond == 2
\* The extent of the model's time.  Under Spec, where the host calls the
\* library in any order, time passes a second at a time for MaxSeconds
\* seconds; under SpecElement, where the DevDimension element drives the
\* library, a tick at a time up to MaxElementTime.
MaxSeconds == 1
MaxElementTime == 12
\* Most animation frames pending at once, most resize listeners registered
\* at once: they bound the host's direct calls of animate and
\* setupEventListeners.
MaxPending == 2
MaxListeners == 1
\* Under SpecViewport the window takes every width and height from 1 to
\* MaxSide and every device pixel ratio from 1 to MaxDpr.
MaxSide == 4
MaxDpr == 3
\* The extent of time under SpecTwo, in ticks.
MaxTwoTime == 8
\* The extent of time under SpecAttached, in ticks.
MaxLiveTime == 16
\* Instances of the Angular wrapper component that the application creates.
Components == {"c1", "c2"}

\* ------------------------------------------------------------- utilities

Min(a, b) == IF a <= b THEN a ELSE b

\* An optional value (a JavaScript field that may be undefined, a WeakMap
\* entry that may be absent) is a sequence of length 0 or 1.
Nothing == <<>>
Some(x) == <<x>>
Has(o) == Len(o) = 1
Get(o) == o[1]

Range(q) == {q[i] : i \in 1..Len(q)}

\* Array.prototype / Object3D.remove: q without the element x.
RECURSIVE Without(_, _)
Without(q, x) ==
  IF q = <<>> THEN <<>>
  ELSE IF Head(q) = x THEN Without(Tail(q), x)
  ELSE <<Head(q)>> \o Without(Tail(q), x)

\* The smallest positive integer outside `used`: a fresh object identity.
Fresh(used) == CHOOSE n \in 1..(Cardinality(used) + 1) :
                 /\ n \notin used
                 /\ \A m \in 1..(n - 1) : m \in used

\* A rational number n/d (d > 0), for the camera bounds.
Rat(n, d) == [n |-> n, d |-> d]

\* ------------------------------------------------------------ state

VARIABLES
  isConnected,              \* element.isConnected, per element
  shadowRoot,               \* element.shadowRoot: optional sequence of canvases
  elementInstanceRegistry,  \* WeakMap element -> ElementInstanceData (optional)
  shapesInAct,              \* the pool: sequence of meshes (shape identities)
  lastActionTime,           \* elapsed time of the last churn action, in ticks
  clock,                    \* THREE.Clock: running, startTime
  sharedShapeMaterial,      \* the shared material: disposed or not
  geometry,                 \* per mesh ever created: how often its geometry was disposed (0..2)
  animationFrames,          \* the browser's pending requestAnimationFrame callbacks
  resizeListeners,          \* window's registered resize listeners
  viewport,                 \* window.innerWidth, innerHeight, devicePixelRatio
  now,                      \* performance.now(), in ticks
  history,                  \* ghost: churn actions counted and timed, meshes labelled, evictions logged
  last,                     \* ghost: the last step and what the library did in it
  MyViteBackground,         \* the global the background bundle defines (optional)
  components,               \* the ExternalBackgroundComponent instances
  wrapperLog,               \* ghost: console errors and calls of the global's functions
  randomValue,              \* Math.floor(Math.random() * 16777216) of the last getRandomColor call
  color                     \* the string the last getRandomColor call returned

vars == <<isConnected, shadowRoot, elementInstanceRegistry, shapesInAct,
          lastActionTime, clock, sharedShapeMaterial, geometry, animationFrames,
          resizeListeners, viewport, now, history, last,
          MyViteBackground, components, wrapperLog, randomValue, color>>

libraryVars == <<isConnected, shadowRoot, elementInstanceRegistry, shapesInAct,
                 lastActionTime, clock, sharedShapeMaterial, geometry,
                 animationFrames, resizeListeners, viewport, now, history, last>>

wrapperVars == <<MyViteBackground, components, wrapperLog>>

colorVars == <<randomValue, color>>

\* What one task did (ghost).
NoEffects ==
  [rendered |-> FALSE, scheduled |-> FALSE, cancelled |-> FALSE,
   churn |-> "none", shape |-> 0, gap |-> -1, matDisposals |-> 0,
   geomDisposals |-> 0, redisposed |-> FALSE, released |-> Nothing,
   calls |-> <<>>]

\* An exported function of the library is entered (ghost: the task's log of
\* calls).
Called(s, function) == [s EXCEPT !.fx.calls = Append(@, function)]

\* The program state as one record, at the start of a task.
State ==
  [conn |-> isConnected, shadow |-> shadowRoot, reg |-> elementInstanceRegistry,
   pool |-> shapesInAct, lastAction |-> lastActionTime, clock |-> clock,
   mat |-> sharedShapeMaterial, geom |-> geometry, raf |-> animationFrames,
   lis |-> resizeListeners, vp |-> viewport, now |-> now, hist |-> history,
   fx |-> NoEffects]

\* The viewports the window takes: landscape at device pixel ratio 1,
\* portrait at device pixel ratio 3.
Viewports == {[w |-> 2, h |-> 1, dpr |-> 1], [w |-> 1, h |-> 2, dpr |-> 3]}

\* `{}`: an ElementInstanceData with every field undefined.  (Ghost:
\* firstTimestamp is the first value lastTimestamp took.)
ElementInstanceData ==
  [animationFrameId |-> 0, resizeHandler |-> 0, threeContext |-> Nothing,
   lastTimestamp |-> -1, firstTimestamp |-> -1]

Data(s, e) == Get(s.reg[e])
Context(s, e) == Get(Data(s, e).threeContext)
HasContext(s, e) == Has(s.reg[e]) /\ Has(Data(s, e).threeContext)
WithContext(s, e, ctx) ==
  [s EXCEPT !.reg[e] = Some([Data(s, e) EXCEPT !.threeContext = Some(ctx)])]

\* Identities in use: canvases, animation frame ids, resize handlers.
CanvasesInUse(s) ==
  UNION {IF Has(s.shadow[e]) THEN Range(Get(s.shadow[e])) ELSE {} : e \in Elements}
  \cup {Context(s, e).canvas : e \in {x \in Elements : HasContext(s, x)}}
FrameIdsInUse(s) ==
  {f.id : f \in s.raf}
  \cup {Data(s, e).animationFrameId : e \in {x \in Elements : Has(s.reg[x])}}
HandlersInUse(s) ==
  {h.id : h \in s.lis}
  \cup {Data(s, e).resizeHandler : e \in {x \in Elements : Has(s.reg[x])}}

\* ------------------------------------------------------- the library

\* createRenderer: the renderer takes the viewport's size and the capped
\* device pixel ratio.
createRenderer(s, canvas) ==
  [canvas |-> canvas, pixelRatio |-> Min(s.vp.dpr, 2),
   width |-> s.vp.w, height |-> s.vp.h, disposed |-> FALSE]

\* createScene and scene.add(meshGroup): the scene holds the mesh group.
createScene == [holdsMeshGroup |-> TRUE]

\* createCamera: OrthographicCamera(-1, 1, 1, -1, ...).
createCamera ==
  [left |-> Rat(-1, 1), right |-> Rat(1, 1), top |-> Rat(1, 1), bottom |-> Rat(-1, 1)]

\* new THREE.Group(): no children, no rotation, scale 1.
createMeshGroup == [children |-> <<>>, rotation |-> [x |-> 0, y |-> 0], halved |-> FALSE]

createComposer == [disposed |-> FALSE]

\* Variants of ApplyViewport: one that gives a portrait window the bounds
\* of a landscape one (aspect for 1 / aspect), and one that does not cap the
\* device pixel ratio.
ApplyViewport_PortraitAspect(s, e) ==
  LET ctx == Context(s, e)
      renderer == [ctx.renderer EXCEPT !.width = s.vp.w, !.height = s.vp.h,
                                       !.pixelRatio = Min(s.vp.dpr, 2)]
      camera == [left |-> Rat(-s.vp.w, s.vp.h), right |-> Rat(s.vp.w, s.vp.h),
                 top |-> Rat(1, 1), bottom |-> Rat(-1, 1)]
  IN WithContext(s, e, [ctx EXCEPT !.renderer = renderer, !.camera = camera])

ApplyViewport_Uncapped(s, e) ==
  LET ctx == Context(s, e)
      newWidth == s.vp.w
      newHeight == s.vp.h
      renderer == [ctx.renderer EXCEPT !.width = newWidth, !.height = newHeight,
                                       !.pixelRatio = s.vp.dpr]
      camera ==
        IF newWidth >= newHeight
        THEN [left |-> Rat(-newWidth, newHeight), right |-> Rat(newWidth, newHeight),
              top |-> Rat(1, 1), bottom |-> Rat(-1, 1)]
        ELSE [left |-> Rat(-1, 1), right |-> Rat(1, 1),
              top |-> Rat(newHeight, newWidth), bottom |-> Rat(-newHeight, newWidth)]
  IN WithContext(s, e, [ctx EXCEPT !.renderer = renderer, !.camera = camera])

\* The body of handleResize: the renderer takes the viewport's size and the
\* capped device pixel ratio, the camera the aspect-ratio bounds.
ApplyViewport(s, e) ==
  LET ctx == Context(s, e)
      newWidth == s.vp.w
      newHeight == s.vp.h
      renderer == [ctx.renderer EXCEPT !.width = newWidth, !.height = newHeight,
                                       !.pixelRatio = Min(s.vp.dpr, 2)]
      camera ==
        IF newWidth >= newHeight
        THEN [left |-> Rat(-newWidth, newHeight), right |-> Rat(newWidth, newHeight),
              top |-> Rat(1, 1), bottom |-> Rat(-1, 1)]
        ELSE [left |-> Rat(-1, 1), right |-> Rat(1, 1),
              top |-> Rat(newHeight, newWidth), bottom |-> Rat(-newHeight, newWidth)]
  IN WithContext(s, e, [ctx EXCEPT !.renderer = renderer, !.camera = camera])

\* Variant of handleResize without the isConnected test.
handleResize_NoConnCheck(s, e) ==
  IF ~Has(s.reg[e]) \/ ~Has(Data(s, e).threeContext) THEN s
  ELSE ApplyViewport(s, e)

\* handleResize: nothing without data, context or connection.
handleResize(s, e) ==
  IF ~Has(s.reg[e]) \/ ~Has(Data(s, e).threeContext) \/ ~s.conn[e] THEN s
  ELSE ApplyViewport(s, e)

\* Variant of AppendCanvas that does not empty the shadow root first.
AppendCanvas_NoClear(s, e, canvas) ==
  [s EXCEPT !.shadow[e] = Some((IF Has(@) THEN Get(@) ELSE <<>>) \o <<canvas>>)]

\* The shadow root of setupThreeScene: attached if missing, emptied
\* (innerHTML = ''), and the new canvas appended.
AppendCanvas(s, e, canvas) == [s EXCEPT !.shadow[e] = Some(<<canvas>>)]

\* setupThreeScene: the canvas goes under the emptied shadow root, a new
\* context replaces the registered one (the other fields of the entry are
\* kept), then handleResize.
setupThreeScene(s, e) ==
  LET canvas == Fresh(CanvasesInUse(s))
      threeContext ==
        [canvas |-> canvas, renderer |-> createRenderer(s, canvas),
         scene |-> createScene, camera |-> createCamera,
         meshGroup |-> createMeshGroup, composer |-> createComposer]
      currentData == IF Has(s.reg[e]) THEN Data(s, e) ELSE ElementInstanceData
      s1 == [AppendCanvas(Called(s, "setupThreeScene"), e, canvas) EXCEPT
               !.reg[e] = Some([currentData EXCEPT
                                  !.threeContext = Some(threeContext)])]
  IN handleResize(s1, e)

\* updateMeshGroupRotation: x += 0.2 * dt * 3, y -= 0.2 * dt; the model keeps
\* the rotation in units of 0.2 radian per tick.
updateMeshGroupRotation(meshGroup, deltaTime) ==
  [meshGroup EXCEPT !.rotation = [x |-> @.x + 3 * deltaTime, y |-> @.y - deltaTime]]

\* geometry.dispose() of mesh m.
DisposeGeometry(s, m) ==
  [s EXCEPT !.geom[m] = Min(@ + 1, 2),
            !.fx.geomDisposals = @ + 1,
            !.fx.redisposed = @ \/ s.geom[m] >= 1]

\* material.dispose() of a mesh's material: every mesh has the shared one.
DisposeMaterial(s) ==
  [s EXCEPT !.mat.disposed = TRUE, !.fx.matDisposals = @ + 1]

\* The then-branch of handleShapeManagement: a new mesh with the shared
\* material is added to the group of e's context and pushed on the pool.
\* (Ghost: the mesh is labelled with the number of the churn action.)
AddShape(s, e) ==
  LET ctx == Context(s, e)
      mesh == Len(s.geom) + 1
      meshGroup == [ctx.meshGroup EXCEPT !.children = Append(@, mesh),
                                         !.halved = TRUE]
      s1 == WithContext(s, e, [ctx EXCEPT !.meshGroup = meshGroup])
  IN [s1 EXCEPT !.geom = Append(@, 0),
                !.pool = Append(@, mesh),
                !.hist.addedOn = Append(@, s.hist.churns),
                !.fx.churn = "add", !.fx.shape = mesh]

\* Variant of EvictShape that leaves the mesh in the group.
EvictShape_NoRemove(s, e) ==
  LET delMesh == s.pool[1]
      s1 == [s EXCEPT !.pool = Tail(@)]
      s2 == DisposeMaterial(DisposeGeometry(s1, delMesh))
  IN [s2 EXCEPT !.hist.evicted = Append(@, delMesh),
                !.fx.churn = "evict", !.fx.shape = delMesh]

\* Variant of EvictShape that takes the newest mesh (pop for shift).
EvictShape_Newest(s, e) ==
  LET delMesh == s.pool[Len(s.pool)]
      s1 == [s EXCEPT !.pool = SubSeq(@, 1, Len(@) - 1)]
      s2 == DisposeMaterial(DisposeGeometry(s1, delMesh))
      ctx == Context(s2, e)
      meshGroup == [ctx.meshGroup EXCEPT !.children = Without(@, delMesh)]
      s3 == WithContext(s2, e, [ctx EXCEPT !.meshGroup = meshGroup])
  IN [s3 EXCEPT !.hist.evicted = Append(@, delMesh),
                !.fx.churn = "evict", !.fx.shape = delMesh]

\* The else-branch of handleShapeManagement: the head of the pool is
\* shifted out, its geometry and its material are disposed, and it is
\* removed from the group of e's context.
EvictShape(s, e) ==
  LET delMesh == s.pool[1]
      s1 == [s EXCEPT !.pool = Tail(@)]
      s2 == DisposeMaterial(DisposeGeometry(s1, delMesh))
      ctx == Context(s2, e)
      meshGroup == [ctx.meshGroup EXCEPT !.children = Without(@, delMesh)]
      s3 == WithContext(s2, e, [ctx EXCEPT !.meshGroup = meshGroup])
  IN [s3 EXCEPT !.hist.evicted = Append(@, delMesh),
                !.fx.churn = "evict", !.fx.shape = delMesh]

\* Variants of handleShapeManagement: <= for <, one that makes room and
\* adds in the same action, and one that evicts two meshes at capacity.
handleShapeManagement_EvictsTwo(s, e) ==
  IF Len(s.pool) < MAX_SHAPES THEN AddShape(s, e)
  ELSE EvictShape(EvictShape(s, e), e)

handleShapeManagement_OffByOne(s, e) ==
  IF Len(s.pool) <= MAX_SHAPES THEN AddShape(s, e) ELSE EvictShape(s, e)

handleShapeManagement_EvictThenAdd(s, e) ==
  IF Len(s.pool) < MAX_SHAPES THEN AddShape(s, e)
  ELSE AddShape(EvictShape(s, e), e)

\* handleShapeManagement on the mesh group of e's context: add below
\* capacity, else evict.
handleShapeManagement(s, e) ==
  IF Len(s.pool) < MAX_SHAPES THEN AddShape(s, e) ELSE EvictShape(s, e)

\* clock.getElapsedTime(): the first call starts the clock and returns 0.
getElapsedTime(s) == IF s.clock.running THEN s.now - s.clock.startTime ELSE 0
ClockRead(s) ==
  IF s.clock.running THEN s
  ELSE [s EXCEPT !.clock = [running |-> TRUE, startTime |-> s.now]]

\* Variant of requestAnimationFrame that schedules nothing.
requestAnimationFrame_Dropped(s, e, id) == s

\* requestAnimationFrame(() => animate(e, ts)): a new pending callback.
requestAnimationFrame(s, e, id) == [s EXCEPT !.raf = @ \cup {[id |-> id, el |-> e]}]
cancelAnimationFrame(s, id) == [s EXCEPT !.raf = {f \in @ : f.id # id}]

\* Variant of AnimateReady without the isConnected test.
AnimateReady_NoConnCheck(s, e) == Has(s.reg[e]) /\ Has(Data(s, e).threeContext)

\* The guard of animate: the element is connected and has an entry with a
\* context.
AnimateReady(s, e) == s.conn[e] /\ Has(s.reg[e]) /\ Has(Data(s, e).threeContext)

\* Variant of ChurnDue that does not subtract lastActionTime.
ChurnDue_NoSubtract(s, elapsedTime) ==
  elapsedTime >= ACTION_INTERVAL * TicksPerSecond

\* The gate of the churn action.
ChurnDue(s, elapsedTime) ==
  elapsedTime - s.lastAction >= ACTION_INTERVAL * TicksPerSecond

\* Variant of ChurnAction that catches up on a missed interval: it moves
\* lastActionTime on by one interval, and acts again when the elapsed time
\* is still an interval ahead.
ChurnAction_CatchUp(s, e, elapsedTime) ==
  LET step == ACTION_INTERVAL * TicksPerSecond
      first == handleShapeManagement(
                 [s EXCEPT !.lastAction = @ + step,
                           !.hist.churns = @ + 1,
                           !.hist.churnAt = s.now,
                           !.fx.gap = IF s.hist.churnAt = -1 THEN -1
                                      ELSE s.now - s.hist.churnAt],
                 e)
  IN IF elapsedTime - first.lastAction >= step
     THEN handleShapeManagement(
            [first EXCEPT !.lastAction = @ + step, !.hist.churns = @ + 1], e)
     ELSE first

\* The churn action of animate: lastActionTime takes the elapsed time, then
\* handleShapeManagement.  (Ghost: the action is counted, its time is kept,
\* and fx.gap is the time since the churn action before it, -1 at the first.)
ChurnAction(s, e, elapsedTime) ==
  handleShapeManagement(
    [s EXCEPT !.lastAction = elapsedTime,
              !.hist.churns = @ + 1,
              !.hist.churnAt = s.now,
              !.fx.gap = IF s.hist.churnAt = -1 THEN -1 ELSE s.now - s.hist.churnAt],
    e)

\* Variants of AdvanceFrame: one that takes a call without a timestamp for
\* a frame at the current time after a last timestamp of 0, and one that
\* does not store the timestamp of a frame.
AdvanceFrame_FirstFromZero(lastTimestamp, meshGroup, timestamp, performanceNow) ==
  LET ts == IF timestamp = -1 THEN performanceNow ELSE timestamp
      lastTimestamp0 == IF lastTimestamp = -1 THEN 0 ELSE lastTimestamp
  IN [lastTimestamp |-> ts,
      meshGroup |-> updateMeshGroupRotation(meshGroup, ts - lastTimestamp0)]

AdvanceFrame_KeepsLastTimestamp(lastTimestamp, meshGroup, timestamp, performanceNow) ==
  IF timestamp = -1
  THEN [lastTimestamp |-> performanceNow, meshGroup |-> meshGroup]
  ELSE LET lastTimestamp0 == IF lastTimestamp = -1 THEN timestamp
                             ELSE lastTimestamp
       IN [lastTimestamp |-> lastTimestamp0,
           meshGroup |-> updateMeshGroupRotation(meshGroup,
                                                 timestamp - lastTimestamp0)]

\* The timing of animate: without a timestamp the current time is recorded
\* and the group is left alone; with one, the group is rotated by the time
\* since the last timestamp (0 if there is none) and the timestamp recorded.
AdvanceFrame(lastTimestamp, meshGroup, timestamp, performanceNow) ==
  IF timestamp = -1
  THEN [lastTimestamp |-> performanceNow, meshGroup |-> meshGroup]
  ELSE LET lastTimestamp0 == IF lastTimestamp = -1 THEN timestamp
                             ELSE lastTimestamp
       IN [lastTimestamp |-> timestamp,
           meshGroup |-> updateMeshGroupRotation(meshGroup,
                                                 timestamp - lastTimestamp0)]

\* animate(e, timestamp); timestamp -1 stands for undefined.
animate(s, e, timestamp) ==
  IF ~AnimateReady(s, e) THEN Called(s, "animate")
  ELSE
    LET data == Data(s, e)
        ctx == Context(s, e)
        frame == AdvanceFrame(data.lastTimestamp, ctx.meshGroup, timestamp, s.now)
        id == Fresh(FrameIdsInUse(s))
        data1 == [data EXCEPT !.lastTimestamp = frame.lastTimestamp,
                              !.firstTimestamp =
                                 IF timestamp = -1 \/ data.lastTimestamp = -1
                                 THEN frame.lastTimestamp ELSE @,
                              !.animationFrameId = id,
                              !.threeContext =
                                 Some([ctx EXCEPT !.meshGroup = frame.meshGroup])]
        s1 == [Called(s, "animate") EXCEPT
                 !.reg[e] = Some(data1),
                 !.fx.rendered = TRUE, !.fx.scheduled = TRUE]
        s2 == ClockRead(requestAnimationFrame(s1, e, id))
        elapsedTime == getElapsedTime(s1)
    IN IF ChurnDue(s2, elapsedTime) THEN ChurnAction(s2, e, elapsedTime) ELSE s2

\* setupEventListeners: a new handler is stored in the entry (created if
\* absent) and added to the window's resize listeners.
setupEventListeners(s, e) ==
  LET specificResizeHandler == Fresh(HandlersInUse(s))
      currentData == IF Has(s.reg[e]) THEN Data(s, e) ELSE ElementInstanceData
  IN [Called(s, "setupEventListeners") EXCEPT
        !.reg[e] = Some([currentData EXCEPT
                           !.resizeHandler = specificResizeHandler]),
               !.lis = @ \cup {[id |-> specificResizeHandler, el |-> e]}]

\* Variant of cleanupEventListeners that forgets the handler without
\* removing it from the window.
cleanupEventListeners_NoRemove(s, e) ==
  IF Has(s.reg[e]) /\ Data(s, e).resizeHandler # 0
  THEN [s EXCEPT !.reg[e] = Some([Data(s, e) EXCEPT !.resizeHandler = 0])]
  ELSE s

\* cleanupEventListeners: the stored handler is removed from the window
\* and from the entry.
cleanupEventListeners(s, e) ==
  IF Has(s.reg[e]) /\ Data(s, e).resizeHandler # 0
  THEN [s EXCEPT !.lis = {h \in @ : h.id # Data(s, e).resizeHandler},
                 !.reg[e] = Some([Data(s, e) EXCEPT !.resizeHandler = 0])]
  ELSE s

\* Variant of DisposeMeshes that disposes the first mesh only.
DisposeMeshes_FirstOnly(s, meshes) ==
  IF meshes = <<>> THEN s
  ELSE DisposeMaterial(DisposeGeometry(s, Head(meshes)))

\* scene.traverse of cleanupThreeResources: every mesh under the scene has
\* its geometry and its material disposed.
RECURSIVE DisposeMeshes(_, _)
DisposeMeshes(s, meshes) ==
  IF meshes = <<>> THEN s
  ELSE DisposeMeshes(DisposeMaterial(DisposeGeometry(s, Head(meshes))), Tail(meshes))

\* renderer.dispose(), composer.dispose() and scene.clear() of
\* cleanupThreeResources: the context as the teardown leaves it.
DisposeContext(ctx) ==
  [ctx EXCEPT !.renderer.disposed = TRUE, !.composer.disposed = TRUE,
              !.scene.holdsMeshGroup = FALSE]

\* What is kept of a context the teardown let go of (ghost): whether its
\* renderer and composer are disposed, whether its scene still holds the
\* mesh group, and the meshes that were resident in the scene when the
\* teardown began.
Released(ctx0, ctx1) ==
  [renderer |-> ctx1.renderer.disposed, composer |-> ctx1.composer.disposed,
   sceneHoldsMeshGroup |-> ctx1.scene.holdsMeshGroup,
   residents |-> IF ctx0.scene.holdsMeshGroup THEN ctx0.meshGroup.children
                 ELSE <<>>]

\* Variant of StopAnimationLoop that forgets the frame without cancelling it.
StopAnimationLoop_NoCancel(s, e) ==
  [s EXCEPT !.reg[e] = Some([Data(s, e) EXCEPT !.animationFrameId = 0])]

\* "Stop the animation loop" of cleanupThreeResources: the stored frame, if
\* any, is cancelled and forgotten.
StopAnimationLoop(s, e) ==
  IF Data(s, e).animationFrameId # 0
  THEN [cancelAnimationFrame(s, Data(s, e).animationFrameId)
          EXCEPT !.reg[e] = Some([Data(s, e) EXCEPT !.animationFrameId = 0]),
                 !.fx.cancelled = TRUE]
  ELSE s

\* Variant of ReleaseEntry that deletes the context from the entry and
\* leaves the entry in the registry.
ReleaseEntry_KeepsEntry(s, e) ==
  LET data == Data(s, e)
      s1 == cleanupEventListeners(StopAnimationLoop(s, e), e)
      s2 == IF Has(data.threeContext)
            THEN LET ctx == Get(data.threeContext)
                 IN DisposeMeshes(s1, IF ctx.scene.holdsMeshGroup
                                      THEN ctx.meshGroup.children ELSE <<>>)
            ELSE s1
  IN [s2 EXCEPT !.reg[e] = Some([Data(s2, e) EXCEPT !.threeContext = Nothing])]

\* The body of cleanupThreeResources for an element with an entry: the
\* stored frame is cancelled, the listener removed, every mesh under the
\* scene disposed (scene.traverse), the composer and the renderer disposed,
\* the scene cleared and the entry deleted.
ReleaseEntry(s, e) ==
  LET data == Data(s, e)
      s1 == cleanupEventListeners(StopAnimationLoop(s, e), e)
      s2 == IF Has(data.threeContext)
            THEN LET ctx == Get(data.threeContext)
                     s3 == DisposeMeshes(s1, IF ctx.scene.holdsMeshGroup
                                             THEN ctx.meshGroup.children ELSE <<>>)
                 IN [s3 EXCEPT !.fx.released =
                                  Some(Released(ctx, DisposeContext(ctx)))]
            ELSE s1
  IN [s2 EXCEPT !.reg[e] = Nothing]

\* Variant of cleanupThreeResources that releases the shared material before
\* it looks for the entry.
cleanupThreeResources_ReleaseFirst(s, e) ==
  IF ~Has(s.reg[e]) THEN DisposeMaterial(s)
  ELSE ReleaseEntry(DisposeMaterial(s), e)

\* cleanupThreeResources: nothing without an entry.
cleanupThreeResources(s, e) ==
  IF ~Has(s.reg[e]) THEN Called(s, "cleanupThreeResources")
  ELSE ReleaseEntry(Called(s, "cleanupThreeResources"), e)

\* ------------------------------------------------- the DevDimension element

\* Variant of connectedCallback that starts the frame loop before the
\* setup.
connectedCallback_AnimateFirst(s, e) ==
  setupEventListeners(setupThreeScene(animate(s, e, -1), e), e)

\* Variant of disconnectedCallback that does not clean up.
disconnectedCallback_NoCleanup(s, e) == s

connectedCallback(s, e) == animate(setupEventListeners(setupThreeScene(s, e), e), e, -1)
disconnectedCallback(s, e) == cleanupThreeResources(s, e)

\* ------------------------------------------------------------- actions

\* The ghost record of a step that is not a call on one element.
\* A component that does not exist yet; a constructed one has isInitialized
\* false (line 18).  (Ghost: `global` is the value MyViteBackground had when
\* ngAfterViewInit ran, `threw` whether ngAfterViewInit ended by an exception,
\* `viewInit` whether ngAfterViewInit ran.)
NoComponent ==
  [phase |-> "none", backgroundHost |-> Nothing, isInitialized |-> FALSE,
   global |-> Nothing, threw |-> FALSE, viewInit |-> FALSE]

NoTask(op) ==
  [op |-> op, el |-> "none", conn |-> FALSE, hadData |-> FALSE,
   hadContext |-> FALSE, storedFramePending |-> FALSE, changed |-> FALSE, fx |-> NoEffects]

Init ==
  /\ isConnected = [e \in Elements |-> FALSE]
  /\ shadowRoot = [e \in Elements |-> Nothing]
  /\ elementInstanceRegistry = [e \in Elements |-> Nothing]
  /\ shapesInAct = <<>>
  /\ lastActionTime = 0
  /\ clock = [running |-> FALSE, startTime |-> 0]
  /\ sharedShapeMaterial = [disposed |-> FALSE]
  /\ geometry = <<>>
  /\ animationFrames = {}
  /\ resizeListeners = {}
  /\ viewport \in Viewports
  /\ now = 0
  /\ history = [churns |-> 0, addedOn |-> <<>>, evicted |-> <<>>,
                churnAt |-> -1]
  /\ last = NoTask("init")
  /\ MyViteBackground = Nothing
  /\ components = [c \in Components |-> NoComponent]
  /\ wrapperLog = [errors |-> <<>>, calls |-> <<>>]
  /\ randomValue = 0
  /\ color = <<>>

\* Frame ids and resize handlers are opaque identities: the library only
\* stores them and hands them back to the browser.  Canonical renumbers the
\* ones in use 1, 2, ... in their order, so that states that differ only in
\* the numbers chosen are one state.
Rank(x, ids) == Cardinality({y \in ids : y <= x})

Renumbered(id, ids) == IF id = 0 THEN 0 ELSE Rank(id, ids)

Canonical(s) ==
  LET frames == FrameIdsInUse(s) \ {0}
      handlers == HandlersInUse(s) \ {0}
  IN [s EXCEPT
        !.raf = {[id |-> Rank(f.id, frames), el |-> f.el] : f \in @},
        !.lis = {[id |-> Rank(h.id, handlers), el |-> h.el] : h \in @},
        !.reg = [e \in Elements |->
                   IF Has(@[e])
                   THEN Some([Get(@[e]) EXCEPT
                                !.animationFrameId = Renumbered(@, frames),
                                !.resizeHandler = Renumbered(@, handlers)])
                   ELSE Nothing]]

\* The variables take the program state s.
Assign(s) ==
  /\ isConnected' = s.conn
  /\ shadowRoot' = s.shadow
  /\ elementInstanceRegistry' = s.reg
  /\ shapesInAct' = s.pool
  /\ lastActionTime' = s.lastAction
  /\ clock' = s.clock
  /\ sharedShapeMaterial' = s.mat
  /\ geometry' = s.geom
  /\ animationFrames' = s.raf
  /\ resizeListeners' = s.lis
  /\ viewport' = s.vp
  /\ now' = s.now
  /\ history' = s.hist
  /\ UNCHANGED wrapperVars
  /\ UNCHANGED colorVars

\* (The state is computed once and then assigned.)
Becomes(s) == \E canonical \in {Canonical(s)} : Assign(canonical)

\* A step of the environment alone: no library code runs.
Environment(s) ==
  /\ Becomes(s)
  /\ last' = NoTask("environment")

\* One task of library code on element e: the program goes from s0, the
\* state in which the code starts, to s1.  `last` records the task, the
\* element's situation when it started, whether the frame its entry stored
\* is still pending afterwards, whether the program state changed, and what
\* the code did.
Task(op, e, before, after) ==
  \E s0 \in {before} : \E s1 \in {after} :
  /\ Becomes(s1)
  /\ last' = [op |-> op, el |-> e, conn |-> s0.conn[e],
              hadData |-> Has(s0.reg[e]),
              hadContext |-> HasContext(s0, e),
              storedFramePending |->
                 /\ Has(s0.reg[e])
                 /\ \E f \in s1.raf : f.id = Data(s0, e).animationFrameId,
              changed |-> [s1 EXCEPT !.fx = NoEffects] # s0,
              fx |-> s1.fx]

\* The host element is inserted into or removed from the document.
Attach(e) ==
  /\ ~isConnected[e]
  /\ Environment([State EXCEPT !.conn[e] = TRUE])

Detach(e) ==
  /\ isConnected[e]
  /\ Environment([State EXCEPT !.conn[e] = FALSE])

\* The host calls the exported functions.
CallSetupThreeScene(e) ==
  Task("setupThreeScene", e, State, setupThreeScene(State, e))

CallSetupEventListeners(e) ==
  /\ Cardinality(resizeListeners) < MaxListeners
  /\ Task("setupEventListeners", e, State, setupEventListeners(State, e))

CallAnimate(e) ==
  /\ Cardinality(animationFrames) < MaxPending
  /\ Task("animate", e, State, animate(State, e, -1))

CallHandleResize(e) ==
  Task("handleResize", e, State, handleResize(State, e))

CallCleanupThreeResources(e) ==
  Task("cleanupThreeResources", e, State, cleanupThreeResources(State, e))

\* The browser takes a pending frame callback off its list and runs it with
\* the current time.
FrameCallback(f) ==
  /\ f \in animationFrames
  /\ LET s0 == [State EXCEPT !.raf = @ \ {f}]
     IN Task("frame", f.el, s0, animate(s0, f.el, now))

\* The window takes a new size: every registered listener runs handleResize.
RECURSIVE ResizeAll(_, _)
ResizeAll(s, els) ==
  IF els = {} THEN s
  ELSE LET e == CHOOSE x \in els : TRUE
       IN ResizeAll(handleResize(s, e), els \ {e})

WindowResize(v) ==
  /\ v # viewport
  /\ LET s0 == [State EXCEPT !.vp = v]
         s1 == ResizeAll(s0, {h.el : h \in resizeListeners})
     IN /\ Becomes(s1)
        /\ last' = [NoTask("resize") EXCEPT !.changed = (s1 # s0), !.fx = s1.fx]

\* Time passes.
Tick ==
  /\ now < MaxSeconds * TicksPerSecond
  /\ Environment([State EXCEPT !.now = @ + TicksPerSecond])

Next ==
  \/ \E e \in Hosts : Attach(e)
  \/ \E e \in Hosts : Detach(e)
  \/ \E e \in Hosts : CallSetupThreeScene(e)
  \/ \E e \in Hosts : CallSetupEventListeners(e)
  \/ \E e \in Hosts : CallAnimate(e)
  \/ \E e \in Hosts : CallHandleResize(e)
  \/ \E e \in Hosts : CallCleanupThreeResources(e)
  \/ \E f \in animationFrames : FrameCallback(f)
  \/ \E v \in Viewports : WindowResize(v)
  \/ Tick

\* The library under a host that calls its exported functions in any order.
Spec == Init /\ [][Next]_vars

\* The DevDimension element: the browser calls connectedCallback when the
\* element is inserted and disconnectedCallback when it is removed.
Connect(e) ==
  /\ ~isConnected[e]
  /\ LET s0 == [State EXCEPT !.conn[e] = TRUE]
     IN Task("connectedCallback", e, s0, connectedCallback(s0, e))

Disconnect(e) ==
  /\ isConnected[e]
  /\ LET s0 == [State EXCEPT !.conn[e] = FALSE]
     IN Task("disconnectedCallback", e, s0, disconnectedCallback(s0, e))

TickElement ==
  /\ now < MaxElementTime
  /\ Environment([State EXCEPT !.now = @ + 1])

NextElement ==
  \/ \E e \in Hosts : Connect(e)
  \/ \E e \in Hosts : Disconnect(e)
  \/ \E f \in animationFrames : FrameCallback(f)
  \/ \E v \in Viewports : WindowResize(v)
  \/ TickElement

\* The library under the DevDimension element.
SpecElement == Init /\ [][NextElement]_vars

\* The DevDimension element in a window that takes every size and device
\* pixel ratio; time stands still.
AllViewports == [w : 1..MaxSide, h : 1..MaxSide, dpr : 1..MaxDpr]

NextViewport ==
  \/ \E e \in Hosts : Connect(e)
  \/ \E e \in Hosts : Disconnect(e)
  \/ \E f \in animationFrames : FrameCallback(f)
  \/ \E v \in AllViewports : WindowResize(v)

SpecViewport == Init /\ [][NextViewport]_vars

\* Two DevDimension elements in one document: each is attached at some time
\* and stays attached; the browser runs their frame callbacks in any order.
TickTwo ==
  /\ now < MaxTwoTime
  /\ Environment([State EXCEPT !.now = @ + 1])

NextTwo ==
  \/ \E e \in Elements : Connect(e)
  \/ \E f \in animationFrames : FrameCallback(f)
  \/ TickTwo

SpecTwo == Init /\ [][NextTwo]_vars

\* The element once attached stays attached.  The browser runs the pending
\* frame callbacks at every display refresh: a tick of time passes once the
\* attached elements have had their frame for the current time.
FramesDelivered ==
  \A e \in Elements :
    (isConnected[e] /\ HasContext(State, e)) => Data(State, e).lastTimestamp = now

TickPaced ==
  /\ now < MaxLiveTime
  /\ FramesDelivered
  /\ Environment([State EXCEPT !.now = @ + 1])

NextAttached ==
  \/ \E e \in Hosts : Connect(e)
  \/ \E f \in animationFrames : FrameCallback(f)
  \/ \E v \in Viewports : WindowResize(v)
  \/ TickPaced

\* Pending frame callbacks are run, and time passes.
SpecAttached ==
  /\ Init
  /\ [][NextAttached]_vars
  /\ WF_vars(\E f \in animationFrames : FrameCallback(f))
  /\ WF_vars(TickPaced)

\* ------------------------------------------- the Angular wrapper component

\* What the global MyViteBackground can be once the bundle's script has run:
\* an object that has or lacks each of the two functions.
Bundles == [initialize : BOOLEAN, destroy : BOOLEAN]

\* What the view query for #backgroundHost yields: undefined, an ElementRef
\* without a native element, or an ElementRef of the div.
HostRefs == {Nothing, Some([nativeElement |-> Nothing]),
             Some([nativeElement |-> Some("div")])}

\* The wrapper's program state as one record.
Wrapper == [global |-> MyViteBackground, comps |-> components, log |-> wrapperLog]

HostElementFound(w, c) ==
  /\ Has(w.comps[c].backgroundHost)
  /\ Has(Get(w.comps[c].backgroundHost).nativeElement)

ConsoleError(w, c, message) ==
  [w EXCEPT !.log.errors = Append(@, [c |-> c, message |-> message])]

\* A call of MyViteBackground.<function> with the component's host element.
CallGlobal(w, c, function) ==
  [w EXCEPT !.log.calls = Append(@, [c |-> c, function |-> function])]

\* ngAfterViewInit; `throws` is whether the bundle's initialize throws.
ngAfterViewInit(w, c, throws) ==
  IF Has(w.global) /\ Get(w.global).initialize
  THEN IF HostElementFound(w, c)
       THEN LET w1 == CallGlobal(w, c, "initialize")
            IN IF throws
               THEN [w1 EXCEPT !.comps[c].threw = TRUE]
               ELSE [w1 EXCEPT !.comps[c].isInitialized = TRUE]
       ELSE ConsoleError(w, c, "backgroundHost element not found")
  ELSE ConsoleError(w, c, "script not loaded or initialize not found")

ngOnDestroy_Unconditional(w, c) ==
  IF Has(w.global) /\ Get(w.global).destroy /\ Has(w.comps[c].backgroundHost)
        /\ Has(Get(w.comps[c].backgroundHost).nativeElement)
  THEN [w EXCEPT !.log.calls = Append(@, [c |-> c, function |-> "destroy"])]
  ELSE w

ngOnDestroy(w, c) ==
  IF w.comps[c].isInitialized /\ Has(w.global) /\ Get(w.global).destroy
  THEN IF HostElementFound(w, c)
       THEN CallGlobal(w, c, "destroy")
       ELSE w
  ELSE w

AssignWrapper(w) ==
  /\ MyViteBackground' = w.global
  /\ components' = w.comps
  /\ wrapperLog' = w.log
  /\ UNCHANGED libraryVars
  /\ UNCHANGED colorVars

\* The bundle's script runs and defines the global.
LoadScript(bundle) ==
  /\ ~Has(MyViteBackground)
  /\ AssignWrapper([Wrapper EXCEPT !.global = Some(bundle)])

\* Angular constructs the component.
Construct(c) ==
  /\ components[c].phase = "none"
  /\ AssignWrapper([Wrapper EXCEPT !.comps[c].phase = "constructed"])

\* Angular resolves the view query and calls ngAfterViewInit.
ViewInit(c, host, throws) ==
  /\ components[c].phase = "constructed"
  /\ LET w0 == [Wrapper EXCEPT !.comps[c].phase = "viewInit",
                               !.comps[c].backgroundHost = host,
                               !.comps[c].global = MyViteBackground,
                               !.comps[c].viewInit = TRUE]
     IN AssignWrapper(ngAfterViewInit(w0, c, throws))

\* Angular destroys the component and calls ngOnDestroy, once.
Destroy(c) ==
  /\ components[c].phase \in {"constructed", "viewInit"}
  /\ LET w0 == [Wrapper EXCEPT !.comps[c].phase = "destroyed"]
     IN AssignWrapper(ngOnDestroy(w0, c))

NextWrapper ==
  \/ \E bundle \in Bundles : LoadScript(bundle)
  \/ \E c \in Components : Construct(c)
  \/ \E c \in Components, host \in HostRefs, throws \in BOOLEAN :
        ViewInit(c, host, throws)
  \/ \E c \in Components : Destroy(c)

\* The Angular wrapper components and the bundle's global.
SpecWrapper == Init /\ [][NextWrapper]_vars

\* ---------------------------------------------------------- getRandomColor

\* The factor of Math.random() in getRandomColor: Math.floor of the product
\* is an integer from 0 to RandomRange - 1.
RandomRange == 16777216

\* The values of the random source the model draws: for every length of the
\* hexadecimal numeral and every leading digit, the least and the greatest
\* number.
RandomValues ==
  {n \in {d * 16^p + q * (16^p - 1) : d \in 0..15, p \in 0..5, q \in 0..1} :
     n < RandomRange}

HexDigits == <<"0", "1", "2", "3", "4", "5", "6", "7",
               "8", "9", "a", "b", "c", "d", "e", "f">>

\* Number.prototype.toString(16) of a non-negative integer: the numeral
\* without leading zeros, as a sequence of characters.
RECURSIVE ToString16(_)
ToString16(n) ==
  IF n < 16 THEN <<HexDigits[n + 1]>>
  ELSE Append(ToString16(n \div 16), HexDigits[(n % 16) + 1])

\* getRandomColor with Math.floor(Math.random() * 16777216) = n.
getRandomColor(n) == <<"#">> \o ToString16(n)

CallGetRandomColor(n) ==
  /\ randomValue' = n
  /\ color' = getRandomColor(n)
  /\ UNCHANGED libraryVars
  /\ UNCHANGED wrapperVars

NextColor == \E n \in RandomValues : CallGetRandomColor(n)

SpecColor == Init /\ [][NextColor]_vars

\* ------------------------------------------------------------ claims

\* The labels of the meshes in the pool: for each, the number of the churn
\* action that added it.
PoolLabels == [i \in 1..Len(shapesInAct) |-> history.addedOn[shapesInAct[i]]]

\* C1: the pool never holds more than MAX_SHAPES shapes.
C1_PoolWithinCapacity == Len(shapesInAct) <= MAX_SHAPES

\* The pool is full again after an eviction.
C1_Witness ==
  /\ Len(shapesInAct) = MAX_SHAPES
  /\ Len(history.evicted) >= 1
  /\ last.fx.churn = "add"

\* C2: eviction is FIFO.  Meshes are numbered in the order they are created,
\* so the claim is that the meshes evicted so far, in the order of their
\* eviction, followed by the pool, are all the meshes in the order they
\* were added: additions go to the tail and each eviction takes the oldest.
C2_EvictionIsFifo ==
  /\ history.evicted = [i \in 1..Len(history.evicted) |-> i]
  /\ shapesInAct = [i \in 1..Len(shapesInAct) |-> Len(history.evicted) + i]
  /\ Len(history.evicted) + Len(shapesInAct) = Len(geometry)

\* Two evictions have happened.
C2_Witness == Len(history.evicted) >= 2

\* C3: a churn action that evicts does not dispose the shared material.
C3_EvictionSparesSharedMaterial ==
  last.fx.churn = "evict" => last.fx.matDisposals = 0

\* C4 as stated, with MAX_SHAPES for the capacity 3 of the scenario: the
\* first MAX_SHAPES churn actions only add, the next evicts the shape of the
\* 1st, and after churn action MAX_SHAPES + 2 the pool holds the shapes of
\* churn actions 3 .. MAX_SHAPES + 2 (with capacity 3: shapes 3, 4, 5).
C4_ScenarioAsStated ==
  /\ history.churns <= MAX_SHAPES =>
       /\ history.evicted = <<>>
       /\ Len(shapesInAct) = history.churns
  /\ history.churns = MAX_SHAPES + 1 => history.evicted = <<1>>
  /\ history.churns = MAX_SHAPES + 2 =>
       Range(PoolLabels) = 3..(MAX_SHAPES + 2)

\* C4 amended: churn actions 1 .. MAX_SHAPES only add; churn action
\* MAX_SHAPES + 1 evicts the shape of the 1st and adds none; after churn
\* action MAX_SHAPES + 2 the pool holds the shapes of churn actions
\* 2 .. MAX_SHAPES and MAX_SHAPES + 2 (with capacity 3: shapes 2, 3, 5).
C4_Scenario ==
  /\ history.churns <= MAX_SHAPES =>
       /\ history.evicted = <<>>
       /\ PoolLabels = [i \in 1..history.churns |-> i]
  /\ history.churns = MAX_SHAPES + 1 =>
       /\ history.evicted = <<1>>
       /\ PoolLabels = [i \in 1..(MAX_SHAPES - 1) |-> i + 1]
  /\ history.churns = MAX_SHAPES + 2 =>
       /\ history.evicted = <<1>>
       /\ PoolLabels = [i \in 1..MAX_SHAPES |->
                          IF i < MAX_SHAPES THEN i + 1 ELSE MAX_SHAPES + 2]

\* Churn action MAX_SHAPES + 2 has run.
C4_Witness == history.churns = MAX_SHAPES + 2 /\ last.fx.churn = "add"

\* C5: a churn action sets lastActionTime to the elapsed time of the clock,
\* and is at least ACTION_INTERVAL after the churn action before it.
C5_ChurnsAnIntervalApart ==
  last.fx.churn # "none" =>
    /\ clock.running
    /\ lastActionTime = now - clock.startTime
    /\ last.fx.gap # -1 => last.fx.gap >= ACTION_INTERVAL * TicksPerSecond

\* A churn action later than one interval after the one before it.
C5_Witness == last.fx.churn # "none" /\ last.fx.gap > ACTION_INTERVAL * TicksPerSecond

\* C6: animate on an element that is detached, has no entry or has no
\* context renders nothing, schedules no frame and changes nothing.
C6_NotReadyFrameDoesNothing ==
  (/\ last.op \in {"animate", "frame"}
   /\ ~(last.conn /\ last.hadData /\ last.hadContext)) =>
    /\ ~last.fx.rendered
    /\ ~last.fx.scheduled
    /\ ~last.changed

\* A frame callback ran on a detached element that has a context.
C6_Witness == last.op = "frame" /\ ~last.conn /\ last.hadContext

\* C7: after cleanupThreeResources the frame the entry stored is not pending
\* and the element has no entry; a frame callback of an element without a
\* context renders nothing, schedules nothing, leaves the pool alone and
\* disposes nothing.
C7_TeardownStopsFrames ==
  /\ last.op = "cleanupThreeResources" =>
       /\ ~last.storedFramePending
       /\ ~Has(elementInstanceRegistry[last.el])
  /\ (last.op = "frame" /\ ~last.hadContext) =>
       /\ ~last.fx.rendered
       /\ ~last.fx.scheduled
       /\ last.fx.churn = "none"
       /\ last.fx.geomDisposals = 0
       /\ last.fx.matDisposals = 0

\* cleanupThreeResources cancelled the pending frame.
C7_Witness == last.op = "cleanupThreeResources" /\ last.fx.cancelled

\* C8: cleanupThreeResources on an element without an entry (never set up,
\* or torn down already) changes nothing.
C8_TeardownWithoutEntryIsNoOp ==
  (last.op = "cleanupThreeResources" /\ ~last.hadData) => ~last.changed

\* cleanupThreeResources ran on an element that had been set up (it has a
\* shadow root) and torn down (it has no entry).
C8_Witness ==
  /\ last.op = "cleanupThreeResources"
  /\ ~last.hadData
  /\ Has(shadowRoot[last.el])

\* C9: after setupThreeScene the shadow root holds exactly one canvas, the
\* canvas of the context registered for the element.
C9_SetupLeavesOneSurface ==
  last.op = "setupThreeScene" =>
    /\ HasContext(State, last.el)
    /\ shadowRoot[last.el] = Some(<<Context(State, last.el).canvas>>)

\* setupThreeScene ran on an element that had a context.
C9_Witness == last.op = "setupThreeScene" /\ last.hadContext

\* C10: after cleanupThreeResources of an element that had a context, no
\* canvas is under the element's shadow root.
C10_SurfaceDetachedAfterTeardown ==
  (last.op = "cleanupThreeResources" /\ last.hadContext) =>
    (Has(shadowRoot[last.el]) => Get(shadowRoot[last.el]) = <<>>)

C12_MaterialReleasedOnce ==
  (last.op = "disconnectedCallback" /\ last.fx.geomDisposals >= 1) =>
    last.fx.matDisposals = 1

\* C13: after the teardown of an element that had a context, the geometry
\* of every mesh that was resident in its scene is disposed, its renderer
\* is disposed, and its scene holds no shapes (scene.clear() has removed the
\* mesh group, the scene's only holder of shapes).
C13_TeardownDisposesResidents ==
  (last.op = "disconnectedCallback" /\ last.hadContext) =>
    /\ Has(last.fx.released)
    /\ LET released == Get(last.fx.released)
       IN /\ \A m \in Range(released.residents) : geometry[m] >= 1
          /\ released.renderer
          /\ ~released.sceneHoldsMeshGroup

\* A teardown with two or more shapes resident.
C13_Witness ==
  /\ last.op = "disconnectedCallback"
  /\ Has(last.fx.released)
  /\ Len(Get(last.fx.released).residents) >= 2

\* C14: after a churn action that evicts, the geometry of the evicted mesh
\* is disposed, the mesh is neither in the pool nor a child of the mesh group
\* of the element's context, and the action disposed one geometry only.
C14_EvictionDisposesHeadOnly ==
  last.fx.churn = "evict" =>
    /\ geometry[last.fx.shape] >= 1
    /\ last.fx.geomDisposals = 1
    /\ last.fx.shape \notin Range(shapesInAct)
    /\ last.fx.shape \notin
         Range(Context(State, last.el).meshGroup.children)

\* A churn action evicted a mesh whose geometry had not been disposed
\* before: the mesh was resident in the element's mesh group.
C14_Witness == last.fx.churn = "evict" /\ ~last.fx.redisposed

\* C15: after connectedCallback, whose animate call has no timestamp, the
\* last timestamp of the element is the current time, the mesh group is not
\* rotated, the scene was rendered and the next frame is scheduled.
C15_FirstFrameRecordsTime ==
  last.op = "connectedCallback" =>
    /\ HasContext(State, last.el)
    /\ Data(State, last.el).lastTimestamp = now
    /\ Context(State, last.el).meshGroup.rotation = [x |-> 0, y |-> 0]
    /\ last.fx.rendered
    /\ last.fx.scheduled
    /\ \E f \in animationFrames :
         f.el = last.el /\ f.id = Data(State, last.el).animationFrameId

\* connectedCallback ran at a time other than 0.
C15_Witness == last.op = "connectedCallback" /\ now > 0

\* C16: the rotation of the mesh group of every element with a context is
\* proportional (3 : -1 on x and y) to the last timestamp minus the first
\* one recorded, whatever the number of frames between them; the last
\* timestamp is never after the current time, so the delta of the next
\* frame is not negative.
C16_RotationFollowsTime ==
  \A e \in Hosts :
    (HasContext(State, e) /\ Data(State, e).lastTimestamp # -1) =>
      LET data == Data(State, e)
          rotation == Context(State, e).meshGroup.rotation
      IN /\ data.firstTimestamp <= data.lastTimestamp
         /\ data.lastTimestamp <= now
         /\ rotation.x = 3 * (data.lastTimestamp - data.firstTimestamp)
         /\ rotation.y = -(data.lastTimestamp - data.firstTimestamp)

\* A frame callback ran two ticks or more after the first timestamp, after
\* two churn actions (so after two frames or more).
C16_Witness ==
  /\ last.op = "frame"
  /\ last.fx.rendered
  /\ Data(State, last.el).lastTimestamp - Data(State, last.el).firstTimestamp >= 2
  /\ history.churns >= 2

\* C17: handleResize on an element that has no entry, no context or is
\* detached changes nothing, and so does a resize of the window while no
\* element is attached with a context.
C17_ResizeBeforeReadyDoesNothing ==
  /\ (last.op = "handleResize" /\ ~(last.hadContext /\ last.conn)) =>
       ~last.changed
  /\ (/\ last.op = "resize"
      /\ \A e \in Elements : ~(isConnected[e] /\ HasContext(State, e))) =>
       ~last.changed

\* handleResize ran on a detached element whose renderer has another size
\* than the window.
C17_Witness ==
  /\ last.op = "handleResize"
  /\ last.hadContext
  /\ ~last.conn
  /\ Context(State, last.el).renderer.width # viewport.w

\* Rational numbers: equality, and a is the negative of b.
RatEq(a, b) == a.n * b.d = b.n * a.d
RatNeg(a, b) == a.n * b.d = -(b.n * a.d)

\* The orthographic bounds fit a window of width w and height h: they are
\* symmetric about 0, the narrow axis spans -1 .. 1, the wide axis spans
\* plus and minus long side / short side, and the horizontal extent is to
\* the vertical extent as w is to h.
CameraFits(camera, w, h) ==
  /\ RatNeg(camera.left, camera.right)
  /\ RatNeg(camera.bottom, camera.top)
  /\ IF w >= h
     THEN RatEq(camera.top, Rat(1, 1)) /\ RatEq(camera.right, Rat(w, h))
     ELSE RatEq(camera.right, Rat(1, 1)) /\ RatEq(camera.top, Rat(h, w))
  /\ (camera.right.n * camera.left.d - camera.left.n * camera.right.d)
       * (camera.top.d * camera.bottom.d) * h
     = (camera.top.n * camera.bottom.d - camera.bottom.n * camera.top.d)
       * (camera.right.d * camera.left.d) * w

\* C18: whenever the element is set up (attached, with a context), the
\* bounds of its camera fit the window: after connectedCallback and after
\* every resize of the window, for every width and height.
C18_CameraFitsViewport ==
  \A e \in Hosts :
    (isConnected[e] /\ HasContext(State, e)) =>
      /\ CameraFits(Context(State, e).camera, viewport.w, viewport.h)
      /\ Context(State, e).renderer.width = viewport.w
      /\ Context(State, e).renderer.height = viewport.h

\* A resize to a portrait window whose sides are not multiples of each other
\* changed the context.
C18_Witness ==
  /\ last.op = "resize"
  /\ last.changed
  /\ viewport.w = 2
  /\ viewport.h = 3

\* C19: the pixel ratio of the renderer of every context is
\* min(devicePixelRatio, 2), after connectedCallback and after every resize
\* of the window, and so never above 2.
C19_PixelRatioCapped ==
  \A e \in Hosts :
    HasContext(State, e) =>
      /\ Context(State, e).renderer.pixelRatio = Min(viewport.dpr, 2)
      /\ Context(State, e).renderer.pixelRatio <= 2

\* A resize to a device pixel ratio above the cap changed the context.
C19_Witness ==
  /\ last.op = "resize"
  /\ last.changed
  /\ viewport.dpr > 2
  /\ \E e \in Hosts :
       HasContext(State, e) /\ Context(State, e).renderer.pixelRatio = 2

\* C20: under the DevDimension element at most one frame of an element is
\* pending at any time, a pending frame is the one the element's entry
\* stores, and a frame is requested only by connectedCallback (the initial
\* update) and by a frame callback.
C20_FramesAreSequential ==
  /\ \A e \in Elements : Cardinality({f \in animationFrames : f.el = e}) <= 1
  /\ \A f \in animationFrames :
       /\ Has(elementInstanceRegistry[f.el])
       /\ Data(State, f.el).animationFrameId = f.id
  /\ last.fx.scheduled => last.op \in {"connectedCallback", "frame"}

\* A frame callback requested the next frame, the only one pending.
C20_Witness ==
  /\ last.op = "frame"
  /\ last.fx.scheduled
  /\ Cardinality(animationFrames) = 1

\* C21: connectedCallback calls setupThreeScene, setupEventListeners and
\* animate, once each and in that order, on an element that has no entry
\* (never set up, or torn down since); disconnectedCallback calls
\* cleanupThreeResources once, on an element that has a context; a frame
\* callback is one call of animate, and a resize of the window calls none of
\* the four.
C21_ElementHonoursContract ==
  /\ last.op = "connectedCallback" =>
       /\ last.fx.calls = <<"setupThreeScene", "setupEventListeners", "animate">>
       /\ ~last.hadData
       /\ isConnected[last.el]
  /\ last.op = "disconnectedCallback" =>
       /\ last.fx.calls = <<"cleanupThreeResources">>
       /\ last.hadContext
       /\ ~isConnected[last.el]
  /\ last.op = "frame" => last.fx.calls = <<"animate">>
  /\ last.op = "resize" => last.fx.calls = <<>>

\* The element is attached again after a detach: connectedCallback ran when
\* shapes had been created, which only the frames of an earlier attach do.
C21_Witness ==
  /\ last.op = "connectedCallback"
  /\ last.fx.scheduled
  /\ Len(geometry) >= 1

\* C22: an element that is attached with a context has exactly one resize
\* listener on the window, the handler its entry stores; an element without
\* an entry (before the first attach, after a teardown) has none.
C22_OneResizeListener ==
  \A e \in Elements :
    LET listeners == {h \in resizeListeners : h.el = e}
    IN /\ (isConnected[e] /\ HasContext(State, e)) =>
            /\ Cardinality(listeners) = 1
            /\ \A h \in listeners : h.id = Data(State, e).resizeHandler
       /\ ~Has(elementInstanceRegistry[e]) => listeners = {}

\* The element is attached again after a detach (shapes exist, which only
\* the frames of an earlier attach create) and has one listener.
C22_Witness ==
  /\ last.op = "connectedCallback"
  /\ Len(geometry) >= 1
  /\ Cardinality({h \in resizeListeners : h.el = last.el}) = 1

\* C23: a view init that finds no attach point (the host element is absent,
\* or the global or its initialize function is missing) logs an error, calls
\* nothing, throws nothing and leaves isInitialized false, so that the
\* component's destruction calls no destroy; and a component calls destroy at
\* most once, and only after an initialize of its own that returned.
AttachPointMissing(c) ==
  \/ ~Has(components[c].backgroundHost)
  \/ ~Has(Get(components[c].backgroundHost).nativeElement)
  \/ ~Has(components[c].global)
  \/ ~Get(components[c].global).initialize

CallsBy(c, function) ==
  {i \in 1..Len(wrapperLog.calls) :
     wrapperLog.calls[i] = [c |-> c, function |-> function]}

ErrorsBy(c) ==
  {i \in 1..Len(wrapperLog.errors) : wrapperLog.errors[i].c = c}

C23_MissingAttachPointIsLogged ==
  \A c \in Components :
    /\ (components[c].viewInit /\ AttachPointMissing(c)) =>
          /\ Cardinality(ErrorsBy(c)) = 1
          /\ CallsBy(c, "initialize") = {}
          /\ ~components[c].threw
          /\ ~components[c].isInitialized
          /\ CallsBy(c, "destroy") = {}
    /\ Cardinality(CallsBy(c, "destroy")) <= 1
    /\ \A i \in CallsBy(c, "destroy") :
          /\ components[c].isInitialized
          /\ ~components[c].threw
          /\ \E j \in CallsBy(c, "initialize") : j < i

\* A component whose view init found no host element, while the bundle was
\* complete, has been destroyed; another one was initialized and destroyed.
C23_Witness ==
  \E c, d \in Components :
    /\ components[c].phase = "destroyed"
    /\ components[c].viewInit
    /\ ~Has(components[c].backgroundHost)
    /\ Has(components[c].global)
    /\ Get(components[c].global).initialize
    /\ Has(MyViteBackground)
    /\ Get(MyViteBackground).destroy
    /\ CallsBy(d, "destroy") # {}

\* C24: whenever an element is set up, the pool holds exactly the children
\* of the element's mesh group, in insertion order (so the pool is empty
\* right after a setup).
C24_PoolIsGroupChildren ==
  \A e \in Elements :
    HasContext(State, e) => shapesInAct = Context(State, e).meshGroup.children

\* C25: no geometry is disposed more than once, whatever the sequence of
\* churn actions, teardowns and new setups.
C25_GeometryDisposedOnce ==
  \A m \in 1..Len(geometry) : geometry[m] <= 1

\* C26: a churn action adds one shape and evicts none when the pool is below
\* capacity, and evicts one and adds none when the pool is at capacity; no
\* other step changes the pool; and from the first time the pool is full its
\* size is the capacity or one less.
ChurnChangesSizeByOne ==
  LET size == Len(shapesInAct)
  IN IF last'.fx.churn = "none" THEN shapesInAct' = shapesInAct
     ELSE IF size < MAX_SHAPES
          THEN /\ last'.fx.churn = "add"
               /\ Len(shapesInAct') = size + 1
               /\ history'.evicted = history.evicted
          ELSE /\ last'.fx.churn = "evict"
               /\ Len(shapesInAct') = size - 1
               /\ Len(geometry') = Len(geometry)

C26_ChurnChangesSizeByOne ==
  /\ [][ChurnChangesSizeByOne]_vars
  /\ []((Len(shapesInAct) = MAX_SHAPES \/ history.evicted # <<>>) =>
          Len(shapesInAct) \in {MAX_SHAPES - 1, MAX_SHAPES})

\* Churn went on after the pool was full: a second eviction has left the
\* pool one below capacity.
C26_Witness ==
  /\ last.op = "frame"
  /\ last.fx.churn = "evict"
  /\ Len(history.evicted) >= 2
  /\ Len(shapesInAct) = MAX_SHAPES - 1

\* C27: while the element stays attached and frames and time go on, the
\* pool fills up to capacity and every shape in the pool is evicted in the
\* end.  Time ends at MaxLiveTime: the pool of an element attached by
\* FillDeadline is full in the end (MAX_SHAPES churn intervals suffice), and
\* a shape in the pool by TurnoverDeadline is evicted in the end (at most
\* 2 * MAX_SHAPES - 1 churn actions later).
FillDeadline == MaxLiveTime - MAX_SHAPES * ACTION_INTERVAL * TicksPerSecond

TurnoverDeadline ==
  MaxLiveTime - (2 * MAX_SHAPES - 1) * ACTION_INTERVAL * TicksPerSecond

\* The shapes that can exist by TurnoverDeadline: one per churn interval.
EarlyShapes == {m \in 1..MaxLiveTime :
                  m * ACTION_INTERVAL * TicksPerSecond <= TurnoverDeadline}

C27_PoolFillsAndTurnsOver ==
  /\ \A e \in Hosts :
       (isConnected[e] /\ HasContext(State, e) /\ now <= FillDeadline)
          ~> (Len(shapesInAct) = MAX_SHAPES)
  /\ [](now <= TurnoverDeadline => Range(shapesInAct) \subseteq EarlyShapes)
  /\ \A m \in EarlyShapes :
       (m \in Range(shapesInAct) /\ now <= TurnoverDeadline)
          ~> (m \in Range(history.evicted))

\* The third shape, added to a pool of two, has been evicted.
C27_Witness ==
  /\ \E e \in Hosts : isConnected[e] /\ HasContext(State, e)
  /\ Len(history.evicted) >= 3
  /\ history.evicted[3] = 3

\* C28: a step runs at most one churn action, however long ago the last one
\* was; the churn action is part of a frame update of an attached element
\* (an animate call that renders), and it takes lastActionTime to the
\* current elapsed time, so that no missed interval remains to catch up on.
\* Hence there are never more churn actions than such frame updates.
FrameUpdateChurnsOnce ==
  LET churned == history'.churns - history.churns
  IN /\ churned \in {0, 1}
     /\ churned = 1 =>
          /\ last'.fx.calls # <<>>
          /\ last'.fx.calls[Len(last'.fx.calls)] = "animate"
          /\ Cardinality({i \in 1..Len(last'.fx.calls) :
                            last'.fx.calls[i] = "animate"}) = 1
          /\ last'.fx.rendered
          /\ isConnected'[last'.el]
          /\ last'.fx.churn \in {"add", "evict"}
          /\ lastActionTime' = now' - clock'.startTime
     /\ churned = 0 => /\ last'.fx.churn = "none"
                       /\ lastActionTime' = lastActionTime

C28_FrameUpdateChurnsOnce == [][FrameUpdateChurnsOnce]_vars

\* A frame update two intervals or more after the last churn action has run
\* its one churn action.
C28_Witness ==
  /\ last.op = "frame"
  /\ last.fx.churn # "none"
  /\ last.fx.gap >= 2 * ACTION_INTERVAL * TicksPerSecond
  /\ lastActionTime = now - clock.startTime

\* C29: with two elements attached, no element's mesh group holds a shape
\* that was evicted from the pool (and whose geometry the eviction disposed).
C29_EvictedShapeLeavesItsScene ==
  \A e \in Elements :
    HasContext(State, e) =>
      \A m \in Range(Context(State, e).meshGroup.children) :
        /\ m \notin Range(history.evicted)
        /\ geometry[m] = 0

\* C30: the string getRandomColor returns is "#" followed by exactly six
\* hexadecimal digits.
C30_ColorHasSixDigits ==
  color # <<>> =>
    /\ Len(color) = 7
    /\ color[1] = "#"
    /\ \A i \in 2..Len(color) : color[i] \in Range(HexDigits)
====
